---- MODULE Spec2Model ----
(***************************************************************************)
(* Model of rljax/buffer/slac_buffer.py: SequenceBuffer, a sliding window  *)
(* over the current episode, and SLACReplayBuffer, a ring of completed     *)
(* windows.  One action per public method; a call that raises is a step    *)
(* that records the exception in err and keeps whatever the method had     *)
(* already assigned before the raise.  Spec is the buffer.                 *)
(*                                                                         *)
(* SpecSAC is rljax/sac_discrete/sac_discrete.py: the step counter, the    *)
(* done mask and the target synchronisation of SACDiscrete.step and        *)
(* SACDiscrete.update.  The agent's own replay buffer is a class of        *)
(* rljax.common and not the one modelled here; of it only the arguments    *)
(* of the append call are kept.                                            *)
(***************************************************************************)
EXTENDS Integers, Sequences, FiniteSets, TLC

VARIABLES
    constructed,       \* SLACReplayBuffer.__init__ has returned
    action_space,      \* type(action_space): "Box", "Discrete" or "Other"
    buffer_size,       \* self.buffer_size
    num_sequences,     \* self.num_sequences (also seq_buffer.num_sequences)
    p,                 \* self._p
    n,                 \* self._n
    buf_state,         \* self.state_   : slot -> window of frames
    buf_action,        \* self.action_  : slot -> action sequence
    buf_reward,        \* self.reward_  : slot -> reward sequence
    buf_done,          \* self.done     : slot -> 0 / 1
    sb_started,        \* seq_buffer._reset_episode
    sb_state,          \* seq_buffer.state_   (deque, maxlen N+1)
    sb_action,         \* seq_buffer.action_  (deque, maxlen N)
    sb_reward,         \* seq_buffer.reward_  (deque, maxlen N)
    op,                \* the last call: its name and arguments
    err,               \* how the last call ended: "ok" or the exception raised
    ret,               \* what the last call returned (None when it returned nothing)
    nframes,           \* history: observations accepted by the buffer so far
    ep_appends,        \* history: transitions accepted since the last reset / reset_episode
    completed,         \* history: the windows completed by append, oldest first
    nwritten,          \* history: number of _append calls that ran to their end
    episodes,          \* history: per accepted reset_episode, what the episode was given
    sac_constructed,   \* SACDiscrete.__init__ has returned
    update_interval,         \* self.update_interval
    update_interval_target,  \* self.update_interval_target
    start_steps,       \* self.start_steps
    learning_steps,    \* self.learning_steps
    critic,            \* self.critic: the parameters of optim_critic.target
    critic_target,     \* self.critic_target: the parameters of the target critic
    appended           \* the arguments of the last self.buffer.append call

vars == <<constructed, action_space, buffer_size, num_sequences, p, n,
          buf_state, buf_action, buf_reward, buf_done,
          sb_started, sb_state, sb_action, sb_reward,
          op, err, ret, nframes, ep_appends, completed, nwritten, episodes,
          sac_constructed, update_interval, update_interval_target, start_steps,
          learning_steps, critic, critic_target, appended>>

cfgVars == <<constructed, action_space, buffer_size, num_sequences>>

storeVars == <<p, n, buf_state, buf_action, buf_reward, buf_done>>

seqVars == <<sb_started, sb_state, sb_action, sb_reward>>

histVars == <<nframes, ep_appends, completed, nwritten, episodes>>

bufVars == <<cfgVars, storeVars, seqVars, histVars>>

sacVars == <<sac_constructed, update_interval, update_interval_target, start_steps,
             learning_steps, critic, critic_target, appended>>

----------------------------------------------------------------------------
(* Bounds of the model. *)

MaxBufferSize == 3

MaxNumSequences == 2

MaxFrames == 5

MaxUpdateInterval == 2

MaxUpdateIntervalTarget == 3

MaxStartSteps == 1

MaxLearningSteps == 3

MaxEpisodeSteps == 2

MaxParam == 1

(* Inputs.  The buffer never inspects an observation, an action or a       *)
(* reward, it only moves them; the k-th observation handed to it is the    *)
(* token k, and the transition that brings it carries action k and reward  *)
(* -k, so that every position of every array is told apart.  Values are    *)
(* taken to have the shape a row of the backing arrays accepts (a discrete *)
(* action as a length-1 array) and to be exact in float32 / int32, so the  *)
(* dtype casts of get() and _append keep them.  The image / vector choice  *)
(* of state_space only selects the container of state_ and is left out.    *)

ActionSpaces == {"Box", "Discrete", "Other"}

Observation(k) == k

ActionAt(k) == k

RewardAt(k) == 0 - k

BatchSizes == {1, 2}

(* np.empty leaves a slot's content unspecified until it is written. *)
Undef == [init |-> FALSE]

(* the content of a slot once it has been assigned *)
Val(x) == [init |-> TRUE, v |-> x]

(* reading outside a backing array *)
IndexError == [init |-> FALSE, index_error |-> TRUE]

None == [none |-> TRUE]

Min(a, b) == IF a <= b THEN a ELSE b

----------------------------------------------------------------------------
(* SequenceBuffer *)

(* deque(maxlen=...) as created by reset() *)
EmptyDeque == <<>>

(* a reset() that keeps the deque it finds *)
ResetDequeKept(d) == d

(* what reset() leaves in place of a deque d: a new, empty one *)
ResetDeque(d) == EmptyDeque

(* reset() that forgets to clear _reset_episode *)
ResetFlagKept == sb_started

(* the value reset() gives _reset_episode *)
ResetFlag == FALSE

(* a deque created without maxlen *)
DequeAppendNoMaxlen(d, x, m) == Append(d, x)

(* collections.deque(maxlen=m).append(x): drops the leftmost entry when full *)
DequeAppend(d, x, m) ==
    IF Len(d) < m THEN Append(d, x) ELSE Append(Tail(d), x)

(* reset_episode without its assertion *)
AssertNotStartedSkipped == TRUE

(* assert not self._reset_episode *)
AssertNotStarted == ~sb_started

(* assert self._reset_episode *)
AssertStarted == sb_started

is_empty == Len(sb_reward) = 0

(* is_full() comparing against the length of the state deque *)
IsFullOffByOne(rew, nseq) == Len(rew) = nseq + 1

(* is_full() on a reward deque rew of a buffer with num_sequences = nseq *)
IsFull(rew, nseq) == Len(rew) = nseq

is_full == IsFull(sb_reward, num_sequences)

(* SequenceBuffer.get(): LazyFrames(list(state_)) and dense copies of the  *)
(* action and reward deques                                                *)
Get(st, ac, rw) == [state |-> st, action |-> ac, reward |-> rw]

get == Get(sb_state, sb_action, sb_reward)

----------------------------------------------------------------------------
(* SLACReplayBuffer *)

(* storing the mask 1 - done in place of done *)
FloatOfBoolInverted(b) == IF b THEN 0 ELSE 1

(* float(done) *)
FloatOfBool(b) == IF b THEN 1 ELSE 0

(* whether __init__ created self.action_ *)
HasActionArray == action_space \in {"Box", "Discrete"}

(* self._p = (self._p + 1) % self.buffer_size *)
NextCursor(cur, size) == (cur + 1) % size

(* _n incremented without the cap *)
NextCountUnbounded(cnt, size) == cnt + 1

(* self._n = min(self._n + 1, self.buffer_size) *)
NextCount(cnt, size) == Min(cnt + 1, size)

Init ==
    /\ constructed = FALSE
    /\ action_space = "None"
    /\ buffer_size = 0
    /\ num_sequences = 0
    /\ p = 0
    /\ n = 0
    /\ buf_state = <<>>
    /\ buf_action = <<>>
    /\ buf_reward = <<>>
    /\ buf_done = <<>>
    /\ sb_started = FALSE
    /\ sb_state = <<>>
    /\ sb_action = <<>>
    /\ sb_reward = <<>>
    /\ op = [name |-> "none"]
    /\ err = "ok"
    /\ ret = None
    /\ nframes = 0
    /\ ep_appends = 0
    /\ completed = <<>>
    /\ nwritten = 0
    /\ episodes = <<>>
    /\ sac_constructed = FALSE
    /\ update_interval = 0
    /\ update_interval_target = 0
    /\ start_steps = 0
    /\ learning_steps = 0
    /\ critic = 0
    /\ critic_target = 0
    /\ appended = None

(* SLACReplayBuffer.__init__ : the else branch evaluates the name          *)
(* NotImplementedError and discards it, so no exception is raised and the  *)
(* object is returned without an action_ attribute.                        *)
Construct(size, nseq, space) ==
    /\ ~constructed
    /\ constructed' = TRUE
    /\ action_space' = space
    /\ buffer_size' = size
    /\ num_sequences' = nseq
    /\ p' = 0
    /\ n' = 0
    /\ buf_state' = [i \in 0 .. (size - 1) |-> Undef]
    /\ buf_action' = IF space \in {"Box", "Discrete"}
                     THEN [i \in 0 .. (size - 1) |-> Undef]
                     ELSE <<>>
    /\ buf_reward' = [i \in 0 .. (size - 1) |-> Undef]
    /\ buf_done' = [i \in 0 .. (size - 1) |-> Undef]
    /\ sb_started' = ResetFlag
    /\ sb_state' = ResetDeque(sb_state)
    /\ sb_action' = ResetDeque(sb_action)
    /\ sb_reward' = ResetDeque(sb_reward)
    /\ op' = [name |-> "__init__", action_space |-> space]
    /\ err' = "ok"
    /\ ret' = None
    /\ UNCHANGED histVars
    /\ UNCHANGED sacVars

(* SequenceBuffer.reset(), called on seq_buffer *)
Reset ==
    /\ constructed
    /\ sb_started' = ResetFlag
    /\ sb_state' = ResetDeque(sb_state)
    /\ sb_action' = ResetDeque(sb_action)
    /\ sb_reward' = ResetDeque(sb_reward)
    /\ op' = [name |-> "reset"]
    /\ err' = "ok"
    /\ ret' = None
    /\ ep_appends' = 0
    /\ UNCHANGED <<cfgVars, storeVars, nframes, completed, nwritten, episodes>>
    /\ UNCHANGED sacVars

(* history: an episode as reset_episode(state) opens it, and as an         *)
(* accepted append extends it; written counts the windows of the episode   *)
(* that _append stored                                                     *)
NewEpisode(state) ==
    [states |-> <<state>>, actions |-> <<>>, rewards |-> <<>>, dones |-> <<>>,
     written |-> 0]

Extended(e, action, reward, done, next_state, stored) ==
    [states |-> Append(e.states, next_state),
     actions |-> Append(e.actions, action),
     rewards |-> Append(e.rewards, reward),
     dones |-> Append(e.dones, done),
     written |-> e.written + (IF stored THEN 1 ELSE 0)]

(* SLACReplayBuffer.reset_episode -> SequenceBuffer.reset_episode *)
ResetEpisode(state) ==
    /\ constructed
    /\ op' = [name |-> "reset_episode", state |-> state]
    /\ ret' = None
    /\ IF AssertNotStarted
       THEN /\ err' = "ok"
            /\ sb_started' = TRUE
            /\ sb_state' = DequeAppend(sb_state, state, num_sequences + 1)
            /\ nframes' = nframes + 1
            /\ ep_appends' = 0
            /\ episodes' = Append(episodes, NewEpisode(state))
            /\ UNCHANGED <<sb_action, sb_reward>>
       ELSE /\ err' = "AssertionError"
            /\ UNCHANGED <<seqVars, nframes, ep_appends, episodes>>
    /\ UNCHANGED <<cfgVars, storeVars, completed, nwritten>>
    /\ UNCHANGED sacVars

(* what a call that returns the plain value x hands back *)
Returned(x) == [value |-> x]

(* a get() that hands out the window and empties the deques *)
CallGetDraining ==
    /\ constructed
    /\ op' = [name |-> "get"]
    /\ err' = "ok"
    /\ ret' = get
    /\ sb_state' = EmptyDeque
    /\ sb_action' = EmptyDeque
    /\ sb_reward' = EmptyDeque
    /\ UNCHANGED <<cfgVars, storeVars, sb_started, histVars>>
    /\ UNCHANGED sacVars

(* seq_buffer.get() *)
CallGet ==
    /\ constructed
    /\ op' = [name |-> "get"]
    /\ err' = "ok"
    /\ ret' = get
    /\ UNCHANGED <<cfgVars, storeVars, seqVars, histVars>>
    /\ UNCHANGED sacVars

(* seq_buffer.is_full() *)
CallIsFull ==
    /\ constructed
    /\ op' = [name |-> "is_full"]
    /\ err' = "ok"
    /\ ret' = Returned(is_full)
    /\ UNCHANGED <<cfgVars, storeVars, seqVars, histVars>>
    /\ UNCHANGED sacVars

(* seq_buffer.is_empty() *)
CallIsEmpty ==
    /\ constructed
    /\ op' = [name |-> "is_empty"]
    /\ err' = "ok"
    /\ ret' = Returned(is_empty)
    /\ UNCHANGED <<cfgVars, storeVars, seqVars, histVars>>
    /\ UNCHANGED sacVars

(* an _append that writes the slot after the cursor *)
StoreAppendAtNext(w, done) ==
    LET q == NextCursor(p, buffer_size)
    IN  /\ buf_state' = [buf_state EXCEPT ![q] = Val(w.state)]
        /\ IF HasActionArray
           THEN /\ buf_action' = [buf_action EXCEPT ![q] = Val(w.action)]
                /\ buf_reward' = [buf_reward EXCEPT ![q] = Val(w.reward)]
                /\ buf_done' = [buf_done EXCEPT ![q] = Val(FloatOfBool(done))]
                /\ p' = NextCursor(p, buffer_size)
                /\ n' = NextCount(n, buffer_size)
                /\ nwritten' = nwritten + 1
           ELSE UNCHANGED <<buf_action, buf_reward, buf_done, p, n, nwritten>>

(* SLACReplayBuffer._append(state_, action_, reward_, done), w the window  *)
(* returned by get().  Line 121 assigns the state slot before line 122     *)
(* looks up self.action_, which raises AttributeError when __init__ never  *)
(* created it; the remaining assignments are then not reached.             *)
StoreAppend(w, done) ==
    /\ buf_state' = [buf_state EXCEPT ![p] = Val(w.state)]
    /\ IF HasActionArray
       THEN /\ buf_action' = [buf_action EXCEPT ![p] = Val(w.action)]
            /\ buf_reward' = [buf_reward EXCEPT ![p] = Val(w.reward)]
            /\ buf_done' = [buf_done EXCEPT ![p] = Val(FloatOfBool(done))]
            /\ p' = NextCursor(p, buffer_size)
            /\ n' = NextCount(n, buffer_size)
            /\ nwritten' = nwritten + 1
       ELSE UNCHANGED <<buf_action, buf_reward, buf_done, p, n, nwritten>>

(* SLACReplayBuffer.append(action, reward, done, next_state, episode_done) *)
AppendCall(action, reward, done, next_state, episode_done) ==
    /\ constructed
    /\ op' = [name |-> "append", action |-> action, reward |-> reward,
              done |-> done, next_state |-> next_state,
              episode_done |-> episode_done]
    /\ ret' = None
    /\ IF AssertStarted
       THEN LET ac == DequeAppend(sb_action, action, num_sequences)
                rw == DequeAppend(sb_reward, <<reward>>, num_sequences)
                st == DequeAppend(sb_state, next_state, num_sequences + 1)
                full == IsFull(rw, num_sequences)
                w == Get(st, ac, rw)
                raised == full /\ ~HasActionArray
            IN  /\ nframes' = nframes + 1
                /\ episodes' = [episodes EXCEPT ![Len(episodes)] =
                                   Extended(@, action, reward, done, next_state,
                                            full /\ HasActionArray)]
                /\ IF full
                   THEN /\ StoreAppend(w, done)
                        /\ completed' = Append(completed,
                                           [state |-> w.state, action |-> w.action,
                                            reward |-> w.reward,
                                            done |-> FloatOfBool(done)])
                   ELSE UNCHANGED <<storeVars, completed, nwritten>>
                /\ err' = IF raised THEN "AttributeError" ELSE "ok"
                /\ IF episode_done /\ ~raised
                   THEN /\ sb_started' = ResetFlag
                        /\ sb_state' = ResetDeque(st)
                        /\ sb_action' = ResetDeque(ac)
                        /\ sb_reward' = ResetDeque(rw)
                        /\ ep_appends' = 0
                   ELSE /\ sb_started' = sb_started
                        /\ sb_state' = st
                        /\ sb_action' = ac
                        /\ sb_reward' = rw
                        /\ ep_appends' = ep_appends + 1
       ELSE /\ err' = "AssertionError"
            /\ UNCHANGED <<seqVars, storeVars, histVars>>
    /\ UNCHANGED cfgVars
    /\ UNCHANGED sacVars

(* _sample_idx drawing from the whole capacity instead of [0, _n) *)
SampleIdxWholeBuffer(cnt, k) ==
    IF cnt <= 0 THEN {} ELSE [1 .. k -> 0 .. (buffer_size - 1)]

(* _sample_idx that returns index 0 when nothing is stored *)
SampleIdxNoCheck(cnt, k) ==
    IF cnt <= 0 THEN [1 .. k -> {0}] ELSE [1 .. k -> 0 .. (cnt - 1)]

(* _sample_idx: np.random.randint(low=0, high=cnt, size=k) for k >= 1, the *)
(* index vectors it can return; none when the range is empty (ValueError)  *)
SampleIdx(cnt, k) == IF cnt <= 0 THEN {} ELSE [1 .. k -> 0 .. (cnt - 1)]

(* arr[i] of a backing array *)
ReadSlot(arr, i) == IF i \in DOMAIN arr THEN arr[i] ELSE IndexError

(* reward_[idx, 0]: the first time step instead of the last *)
FirstReward(r) == IF r.init THEN Val(r.v[1]) ELSE r

(* reward_[idx, -1]: the last time step of a stored reward sequence *)
LastReward(r) == IF r.init THEN Val(r.v[Len(r.v)]) ELSE r

(* _sample_state(idxes): state_[idx] for each drawn index, in draw order *)
SampleState(idxes) == [i \in DOMAIN idxes |-> ReadSlot(buf_state, idxes[i])]

(* the tuple sample_latent returns for the index vector idxes *)
LatentBatch(idxes) ==
    [idxes |-> idxes,
     state |-> SampleState(idxes),
     action |-> [i \in DOMAIN idxes |-> ReadSlot(buf_action, idxes[i])],
     reward |-> [i \in DOMAIN idxes |-> ReadSlot(buf_reward, idxes[i])],
     done |-> [i \in DOMAIN idxes |-> ReadSlot(buf_done, idxes[i])]]

(* the tuple sample_sac returns for the index vector idxes *)
SacBatch(idxes) ==
    [idxes |-> idxes,
     state |-> SampleState(idxes),
     action |-> [i \in DOMAIN idxes |-> ReadSlot(buf_action, idxes[i])],
     reward |-> [i \in DOMAIN idxes |-> LastReward(ReadSlot(buf_reward, idxes[i]))],
     done |-> [i \in DOMAIN idxes |-> ReadSlot(buf_done, idxes[i])]]

(* sample_latent(batch_size) / sample_sac(batch_size) *)
Sample(name, batch_size) ==
    /\ constructed
    /\ op' = [name |-> name, batch_size |-> batch_size]
    /\ IF SampleIdx(n, batch_size) = {}
       THEN /\ err' = "ValueError"
            /\ ret' = None
       ELSE \E idxes \in SampleIdx(n, batch_size) :
            /\ err' = "ok"
            /\ ret' = IF name = "sample_sac" THEN SacBatch(idxes)
                      ELSE LatentBatch(idxes)
    /\ UNCHANGED <<cfgVars, storeVars, seqVars, histVars>>
    /\ UNCHANGED sacVars

sample_latent(batch_size) == Sample("sample_latent", batch_size)

sample_sac(batch_size) == Sample("sample_sac", batch_size)

Next ==
    \/ \E size \in 1 .. MaxBufferSize, nseq \in 1 .. MaxNumSequences,
          space \in ActionSpaces : Construct(size, nseq, space)
    \/ Reset
    \/ (nframes < MaxFrames /\ ResetEpisode(Observation(nframes + 1)))
    \/ \E done \in BOOLEAN, episode_done \in BOOLEAN :
          /\ nframes < MaxFrames
          /\ AppendCall(ActionAt(nframes + 1), RewardAt(nframes + 1), done,
                        Observation(nframes + 1), episode_done)
    \/ \E batch_size \in BatchSizes : sample_latent(batch_size)
    \/ \E batch_size \in BatchSizes : sample_sac(batch_size)
    \/ CallGet
    \/ CallIsFull
    \/ CallIsEmpty

Spec == Init /\ [][Next]_vars

----------------------------------------------------------------------------
(* SACDiscrete *)

(* Network parameters are told apart by a number; what a gradient step     *)
(* makes of them is any of these values.                                   *)
Params == 0 .. MaxParam

(* what env.reset() returns *)
ResetState == [kind |-> "reset"]

(* the observation env.step returns on the t-th step of an episode *)
StepState(t) == [kind |-> "step", t |-> t]

(* the state the caller of step() holds after t steps of an episode *)
StateAt(t) == IF t = 0 THEN ResetState ELSE StepState(t)

(* the action step() takes: env.action_space.sample() during the first     *)
(* start_steps steps, self.explore(state) after them                       *)
ChooseAction(step_no, start) == IF step_no <= start THEN "sample" ELSE "explore"

(* a mask that passes done through at the time limit as well *)
MaskPlain(t, max_episode_steps, done) == done

(* mask = False if t == env._max_episode_steps else done *)
Mask(t, max_episode_steps, done) == IF t = max_episode_steps THEN FALSE ELSE done

(* a target update due every update_interval_target-th call, whatever the  *)
(* update interval                                                         *)
TargetUpdateDueByCalls(steps, interval, interval_target) ==
    steps % interval_target = 0

(* (self.learning_steps * self.update_interval) % self.update_interval_target == 0 *)
TargetUpdateDue(steps, interval, interval_target) ==
    (steps * interval) % interval_target = 0

(* soft_update(target, source, tau) of rljax.common.utils, for tau 0 or 1: *)
(* (1 - tau) * target + tau * source on every parameter                    *)
SoftUpdate(target, source, tau) == (1 - tau) * target + tau * source

(* SACDiscrete.__init__: critic and critic_target are built from the same  *)
(* rng_critic, so they start with equal parameters.                        *)
SACDiscreteInit(interval, interval_target, start) ==
    /\ ~sac_constructed
    /\ sac_constructed' = TRUE
    /\ update_interval' = interval
    /\ update_interval_target' = interval_target
    /\ start_steps' = start
    /\ learning_steps' = 0
    /\ \E c \in Params : critic' = c /\ critic_target' = c
    /\ appended' = None
    /\ op' = [name |-> "SACDiscrete.__init__"]
    /\ err' = "ok"
    /\ ret' = None
    /\ UNCHANGED bufVars

(* SACDiscrete.step(env, state, t, step), done what env.step reports *)
step(max_episode_steps, state, t, step_no, done) ==
    /\ sac_constructed
    /\ LET t1 == t + 1
           action == ChooseAction(step_no, start_steps)
           next_state == StepState(t1)
           mask == Mask(t1, max_episode_steps, done)
       IN  /\ appended' = [state |-> state, action |-> action, reward |-> RewardAt(t1),
                           mask |-> mask, next_state |-> next_state]
           /\ ret' = IF done THEN [next_state |-> ResetState, t |-> 0]
                     ELSE [next_state |-> next_state, t |-> t1]
    /\ op' = [name |-> "step", max_episode_steps |-> max_episode_steps,
              state |-> state, t |-> t, step |-> step_no, done |-> done]
    /\ err' = "ok"
    /\ UNCHANGED <<sac_constructed, update_interval, update_interval_target,
                   start_steps, learning_steps, critic, critic_target>>
    /\ UNCHANGED bufVars

(* SACDiscrete.update(): the gradient steps leave the critic with any      *)
(* parameters; the target is synchronised after them, from the new critic. *)
update ==
    /\ sac_constructed
    /\ learning_steps < MaxLearningSteps
    /\ learning_steps' = learning_steps + 1
    /\ \E c \in Params : critic' = c
    /\ critic_target' =
          IF TargetUpdateDue(learning_steps', update_interval, update_interval_target)
          THEN SoftUpdate(critic_target, critic', 1)
          ELSE critic_target
    /\ op' = [name |-> "update"]
    /\ err' = "ok"
    /\ ret' = None
    /\ UNCHANGED <<sac_constructed, update_interval, update_interval_target,
                   start_steps, appended>>
    /\ UNCHANGED bufVars

NextSAC ==
    \/ \E interval \in 1 .. MaxUpdateInterval,
          interval_target \in 1 .. MaxUpdateIntervalTarget,
          start \in 0 .. MaxStartSteps :
          SACDiscreteInit(interval, interval_target, start)
    \/ \E max_episode_steps \in 1 .. MaxEpisodeSteps,
          t \in 0 .. MaxEpisodeSteps,
          step_no \in 1 .. (MaxStartSteps + 1),
          done \in BOOLEAN :
          step(max_episode_steps, StateAt(t), t, step_no, done)
    \/ update

SpecSAC == Init /\ [][NextSAC]_vars

----------------------------------------------------------------------------
(* Properties *)

N == num_sequences

SampleOps == {"sample_latent", "sample_sac"}

(* slot i of the store holds window w in all four backing arrays *)
SlotHolds(i, w) ==
    /\ ReadSlot(buf_state, i) = Val(w.state)
    /\ ReadSlot(buf_action, i) = Val(w.action)
    /\ ReadSlot(buf_reward, i) = Val(w.reward)
    /\ ReadSlot(buf_done, i) = Val(w.done)

(* C1: once windows have been completed, the store holds the last          *)
(* buffer_size of them, the k-th (from 0) in slot k mod buffer_size, with  *)
(* n = min(number completed, buffer_size) and p = number completed mod     *)
(* buffer_size.                                                            *)
C1_FIFO ==
    constructed =>
        LET W == Len(completed)
        IN  /\ n = Min(W, buffer_size)
            /\ p = W % buffer_size
            /\ \A k \in 0 .. (W - 1) :
                   k >= W - buffer_size => SlotHolds(k % buffer_size, completed[k + 1])

(* C1 for the action spaces __init__ handles *)
C1_FIFO_Supported == HasActionArray => C1_FIFO

C1_Supported_Witness ==
    /\ HasActionArray
    /\ buffer_size >= 2
    /\ Len(completed) > buffer_size

(* C2: 0 <= n <= capacity and 0 <= p < capacity; with W the number of      *)
(* windows written, n = min(W, capacity) and p = W mod capacity; each      *)
(* write advances p by one modulo capacity and raises n by one unless n    *)
(* is already the capacity.                                                *)
C2_Inv ==
    constructed =>
        /\ 0 <= n /\ n <= buffer_size
        /\ 0 <= p /\ p < buffer_size
        /\ n = Min(nwritten, buffer_size)
        /\ p = nwritten % buffer_size

C2_CursorAndCount ==
    /\ []C2_Inv
    /\ [][nwritten' = nwritten + 1 =>
            /\ p' = (p + 1) % buffer_size
            /\ n' = IF n = buffer_size THEN n ELSE n + 1]_vars

C2_Witness ==
    /\ op.name = "append"
    /\ err = "ok"
    /\ buffer_size >= 2
    /\ nwritten > buffer_size
    /\ n = buffer_size
    /\ p = 1

(* C3: a sample taken with n >= 1 returns exactly batch_size entries, each *)
(* index in [0, n), each index a slot an earlier write has filled.         *)
C3_SampleInRange ==
    (op.name \in SampleOps /\ n >= 1) =>
        /\ err = "ok"
        /\ Len(ret.idxes) = op.batch_size
        /\ Len(ret.state) = op.batch_size
        /\ Len(ret.action) = op.batch_size
        /\ Len(ret.reward) = op.batch_size
        /\ Len(ret.done) = op.batch_size
        /\ \A i \in 1 .. op.batch_size :
               /\ ret.idxes[i] \in 0 .. (n - 1)
               /\ ret.idxes[i] < nwritten
               /\ ReadSlot(buf_state, ret.idxes[i]).init
               /\ ReadSlot(buf_action, ret.idxes[i]).init
               /\ ReadSlot(buf_reward, ret.idxes[i]).init
               /\ ReadSlot(buf_done, ret.idxes[i]).init
               /\ ret.state[i].init /\ ret.action[i].init
               /\ ret.reward[i].init /\ ret.done[i].init

C3_Witness ==
    /\ op.name \in SampleOps
    /\ err = "ok"
    /\ op.batch_size = 2
    /\ n >= 1
    /\ n < buffer_size
    /\ ret.idxes[1] # ret.idxes[2]

C5_UnsupportedRejected ==
    /\ constructed => action_space \in {"Box", "Discrete"}
    /\ (op.name = "__init__" /\ op.action_space \notin {"Box", "Discrete"}) => err # "ok"

C7_Inv ==
    constructed =>
        /\ Len(sb_action) <= N
        /\ Len(sb_reward) <= N
        /\ Len(sb_state) <= N + 1

C7_BoundedDeques ==
    /\ []C7_Inv
    /\ [][(/\ op'.name = "append"
           /\ sb_started
           /\ sb_started'
           /\ Len(sb_state) = N + 1
           /\ Len(sb_action) = N
           /\ Len(sb_reward) = N) =>
            /\ sb_state' = Append(Tail(sb_state), op'.next_state)
            /\ sb_action' = Append(Tail(sb_action), op'.action)
            /\ sb_reward' = Append(Tail(sb_reward), <<op'.reward>>)]_vars

C7_Witness ==
    /\ op.name = "append"
    /\ err = "ok"
    /\ sb_started
    /\ N >= 2
    /\ ep_appends > N
    /\ Len(sb_state) = N + 1
    /\ sb_state[N + 1] = op.next_state

(* C8: is_full() holds iff N+1 states are stored, and iff at least N       *)
(* transitions were appended since the last reset / reset_episode: false   *)
(* after fewer than N appends, true from the N-th on.                      *)
C8_IsFull ==
    constructed =>
        /\ is_full <=> Len(sb_reward) = N
        /\ is_full <=> Len(sb_state) = N + 1
        /\ is_full <=> ep_appends >= N
        /\ ep_appends < N => Len(sb_reward) = ep_appends

C8_Witness ==
    /\ op.name = "append"
    /\ N >= 2
    /\ is_full
    /\ ep_appends = N

(* the window the sequence buffer holds once the transition of op' is pushed *)
PushedWindow ==
    Get(DequeAppend(sb_state, op'.next_state, N + 1),
        DequeAppend(sb_action, op'.action, N),
        DequeAppend(sb_reward, <<op'.reward>>, N))

(* C9: append with episode_done leaves the sequence buffer reset; a        *)
(* partial window is not written (p, n and the slots stay), a window       *)
(* completed by that transition is written at the old cursor.              *)
C9_Step ==
    (constructed /\ op'.name = "append" /\ sb_started /\ op'.episode_done) =>
        /\ sb_state' = <<>> /\ sb_action' = <<>> /\ sb_reward' = <<>>
        /\ ~sb_started'
        /\ IF Len(PushedWindow.reward) < N
           THEN UNCHANGED <<storeVars, completed, nwritten>>
           ELSE /\ nwritten' = nwritten + 1
                /\ ReadSlot(buf_state', p) = Val(PushedWindow.state)
                /\ ReadSlot(buf_action', p) = Val(PushedWindow.action)
                /\ ReadSlot(buf_reward', p) = Val(PushedWindow.reward)
                /\ ReadSlot(buf_done', p) = Val(FloatOfBool(op'.done))

C9_EpisodeDoneResets == [][C9_Step]_vars

(* C9 for the action spaces __init__ handles *)
C9_EpisodeDoneResets_Supported == [][HasActionArray => C9_Step]_vars

(* C10: reset() empties the three deques and clears the flag, is_empty()   *)
(* then holds, and until reset_episode is called an append fails.          *)
C10_AfterReset ==
    /\ [][op'.name = "reset" =>
            /\ sb_state' = <<>> /\ sb_action' = <<>> /\ sb_reward' = <<>>
            /\ ~sb_started'
            /\ is_empty']_vars
    /\ [][(constructed /\ ~sb_started /\ sb_started') => op'.name = "reset_episode"]_vars
    /\ [][(constructed /\ ~sb_started /\ op'.name = "append") =>
            err' = "AssertionError"]_vars

C10_Witness ==
    /\ op.name = "append"
    /\ err = "AssertionError"
    /\ is_empty
    /\ nwritten >= 1

(* C11: for every index vector that can be drawn, sample_sac returns the   *)
(* states, actions and done flags sample_latent returns, and as reward of  *)
(* each index the entry at position N-1 of the reward sequence             *)
(* sample_latent returns; a sample_sac call returns such a tuple.          *)
C11_SacMatchesLatent ==
    /\ constructed =>
          \A k \in BatchSizes : \A idxes \in SampleIdx(n, k) :
              /\ SacBatch(idxes).state = LatentBatch(idxes).state
              /\ SacBatch(idxes).action = LatentBatch(idxes).action
              /\ SacBatch(idxes).done = LatentBatch(idxes).done
              /\ \A i \in 1 .. k :
                     /\ Len(LatentBatch(idxes).reward[i].v) = N
                     /\ SacBatch(idxes).reward[i] =
                            Val(LatentBatch(idxes).reward[i].v[N])
    /\ (op.name = "sample_sac" /\ err = "ok") =>
          /\ ret.state = LatentBatch(ret.idxes).state
          /\ ret.action = LatentBatch(ret.idxes).action
          /\ ret.done = LatentBatch(ret.idxes).done
          /\ \A i \in 1 .. op.batch_size :
                 ret.reward[i] = Val(LatentBatch(ret.idxes).reward[i].v[N])

C11_Witness ==
    /\ op.name = "sample_sac"
    /\ err = "ok"
    /\ N >= 2
    /\ op.batch_size = 2
    /\ ret.idxes[1] # ret.idxes[2]
    /\ ret.reward[1] # ret.reward[2]

ReadOps == {"get", "is_full", "is_empty", "sample_latent", "sample_sac"}

(* C12: get(), is_full(), is_empty(), sample_latent() and sample_sac()     *)
(* leave the three deques, the episode flag, p, n and every slot as they   *)
(* were, and a get() right after a get() returns the same window.          *)
C12_ReadOnly ==
    /\ [][(constructed /\ op'.name \in ReadOps) =>
            UNCHANGED <<sb_state, sb_action, sb_reward, sb_started,
                        p, n, buf_state, buf_action, buf_reward, buf_done>>]_vars
    /\ [][(op.name = "get" /\ op'.name = "get") => ret' = ret]_vars
    /\ [](op.name = "get" => ret = get)

C12_Witness ==
    /\ op.name = "get"
    /\ err = "ok"
    /\ ret = get
    /\ Len(ret.state) = N + 1
    /\ N >= 2
    /\ n >= 1

(* the episode reset_episode opened last *)
Cur == episodes[Len(episodes)]

Max(a, b) == IF a >= b THEN a ELSE b

(* C13: in an episode, the i-th append writes a window iff i >= N, so an   *)
(* episode of T appends has written max(0, T - N + 1) windows; the window  *)
(* of the i-th append holds the states s_{i-N} .. s_i and the actions and  *)
(* rewards of the transitions i-N+1 .. i of the episode, in arrival order. *)
C13_Step ==
    (constructed /\ op'.name = "append" /\ sb_started) =>
        LET i == Len(Cur.actions) + 1
            e == episodes'[Len(episodes)]
        IN  /\ Len(e.actions) = i
            /\ IF i < N
               THEN UNCHANGED <<storeVars, nwritten>>
               ELSE /\ nwritten' = nwritten + 1
                    /\ ReadSlot(buf_state', p) = Val(SubSeq(e.states, i - N + 1, i + 1))
                    /\ ReadSlot(buf_action', p) = Val(SubSeq(e.actions, i - N + 1, i))
                    /\ ReadSlot(buf_reward', p) =
                           Val([j \in 1 .. N |-> <<e.rewards[i - N + j]>>])

C13_Count ==
    \A k \in 1 .. Len(episodes) :
        episodes[k].written = Max(0, Len(episodes[k].actions) - N + 1)

C13_WindowsPerEpisode == []C13_Count /\ [][C13_Step]_vars

(* C13 for the action spaces __init__ handles *)
C13_WindowsPerEpisode_Supported ==
    [](HasActionArray => C13_Count) /\ [][HasActionArray => C13_Step]_vars

C13_Supported_Witness ==
    /\ HasActionArray
    /\ N >= 2
    /\ op.name = "append"
    /\ err = "ok"
    /\ op.episode_done
    /\ Len(Cur.actions) = N + 1
    /\ Cur.written = 2

(* C14: the window in a slot is a run of consecutive states of one episode *)
(* with the actions and rewards of the transitions between them; a window  *)
(* that holds the first state of an episode starts with it.                *)
C14_SingleEpisode ==
    constructed =>
        \A i \in 0 .. (buffer_size - 1) :
            buf_state[i].init =>
                /\ \E k \in 1 .. Len(episodes) :
                   \E j \in 1 .. Len(episodes[k].actions) :
                       /\ j + N <= Len(episodes[k].states)
                       /\ buf_state[i].v = SubSeq(episodes[k].states, j, j + N)
                       /\ ReadSlot(buf_action, i).init =>
                              buf_action[i].v = SubSeq(episodes[k].actions, j, j + N - 1)
                       /\ buf_reward[i].init =>
                              buf_reward[i].v =
                                  [m \in 1 .. N |-> <<episodes[k].rewards[j + m - 1]>>]
                /\ \A k \in 1 .. Len(episodes) :
                       (\E m \in 1 .. Len(buf_state[i].v) :
                            buf_state[i].v[m] = episodes[k].states[1])
                       => buf_state[i].v[1] = episodes[k].states[1]

C14_Witness ==
    /\ buffer_size >= 2
    /\ Len(episodes) >= 2
    /\ n = 2
    /\ buf_state[0].v[1] = episodes[1].states[1]
    /\ buf_state[1].v[1] = episodes[2].states[1]
    /\ op.name = "append"
    /\ op.episode_done

(* slot i is the same in all four backing arrays before and after the step *)
SlotUnchanged(i) ==
    /\ ReadSlot(buf_state', i) = ReadSlot(buf_state, i)
    /\ ReadSlot(buf_action', i) = ReadSlot(buf_action, i)
    /\ ReadSlot(buf_reward', i) = ReadSlot(buf_reward, i)
    /\ ReadSlot(buf_done', i) = ReadSlot(buf_done, i)

(* the step rewrites the slot at the old cursor and no other slot *)
OnlyCursorSlotChanged ==
    /\ ~SlotUnchanged(p)
    /\ \A i \in 0 .. (buffer_size - 1) : i # p => SlotUnchanged(i)

(* C15 as stated: reset_episode, and an append after which the sequence    *)
(* buffer is not full, change neither p, n nor any slot; an append after   *)
(* which it is full changes the slot at the old cursor and no other.       *)
C15_Frame_AsStated ==
    [][/\ (constructed /\ op'.name = "reset_episode") => UNCHANGED storeVars
       /\ (constructed /\ op'.name = "append") =>
              IF is_full' THEN OnlyCursorSlotChanged
              ELSE UNCHANGED storeVars]_vars

(* C15, amended: the same with "full" taken when the transition has been   *)
(* pushed, before the episode_done reset.                                  *)
C15_Frame ==
    [][/\ (constructed /\ op'.name = "reset_episode") => UNCHANGED storeVars
       /\ (constructed /\ op'.name = "append") =>
              IF sb_started /\ IsFull(PushedWindow.reward, N)
              THEN /\ OnlyCursorSlotChanged
                   /\ ReadSlot(buf_state', p) = Val(PushedWindow.state)
              ELSE UNCHANGED storeVars]_vars

C15_Witness ==
    /\ op.name = "append"
    /\ err = "ok"
    /\ op.episode_done
    /\ is_empty
    /\ buffer_size >= 2
    /\ nwritten >= 2
    /\ buf_state[NextCursor(p, buffer_size)].init

(* the number, in order of completion, of the window whose states slot i holds *)
HeldIndex(i) ==
    CHOOSE j \in 1 .. Len(completed) : Val(completed[j].state) = buf_state[i]

(* C16: a slot that holds a window keeps its states, actions, rewards and  *)
(* flag through every call (appends that evict from the deques, resets,    *)
(* reads) until the append that completes the window buffer_size windows   *)
(* after the one it holds.  get() hands _append copies of the deques       *)
(* (LazyFrames makes a list, np.array a dense array), so a slot's content  *)
(* is a value of its own.                                                  *)
C16_Step ==
    constructed =>
        \A i \in 0 .. (buffer_size - 1) :
            (buf_state[i].init /\ ~SlotUnchanged(i)) =>
                /\ op'.name = "append"
                /\ Len(completed') = HeldIndex(i) + buffer_size

C16_Snapshot == [][C16_Step]_vars

(* C16 for the action spaces __init__ handles *)
C16_Snapshot_Supported == [][HasActionArray => C16_Step]_vars

C16_Supported_Witness ==
    /\ HasActionArray
    /\ buffer_size = 2
    /\ Len(completed) = 3
    /\ Len(episodes) >= 2
    /\ SlotHolds(0, completed[3])
    /\ SlotHolds(1, completed[2])

(* C17: the flag written with a window is 1 or 0 as the done argument of   *)
(* the append that completed it, whatever the done of the transitions      *)
(* before it in the window and whatever episode_done.                      *)
C17_Inv ==
    constructed =>
        \A i \in 0 .. (buffer_size - 1) :
            ReadSlot(buf_done, i).init =>
                \E k \in 1 .. Len(episodes) :
                \E j \in 1 .. Len(episodes[k].actions) :
                    /\ j + N <= Len(episodes[k].states)
                    /\ buf_state[i].v = SubSeq(episodes[k].states, j, j + N)
                    /\ buf_done[i].v = IF episodes[k].dones[j + N - 1] THEN 1 ELSE 0

C17_DoneFlag ==
    /\ []C17_Inv
    /\ [][(constructed /\ op'.name = "append" /\ nwritten' = nwritten + 1) =>
            ReadSlot(buf_done', p) = Val(IF op'.done THEN 1 ELSE 0)]_vars

C17_Witness ==
    /\ op.name = "append"
    /\ err = "ok"
    /\ N >= 2
    /\ ~op.done
    /\ op.episode_done
    /\ Len(Cur.dones) = N
    /\ Cur.dones[1]
    /\ Cur.written = 1
    /\ ReadSlot(buf_done, 0) = Val(0)

(* C18: update() raises learning_steps by one; the target critic becomes   *)
(* the critic as the call leaves it when learning_steps * update_interval  *)
(* is then a multiple of update_interval_target, and stays as it was       *)
(* otherwise.                                                              *)
C18_TargetSync ==
    [][op'.name = "update" =>
          /\ learning_steps' = learning_steps + 1
          /\ IF \E m \in 0 .. (learning_steps' * update_interval) :
                    learning_steps' * update_interval = m * update_interval_target
             THEN critic_target' = critic'
             ELSE critic_target' = critic_target]_vars

C18_Witness ==
    /\ op.name = "update"
    /\ update_interval = 2
    /\ update_interval_target = 3
    /\ learning_steps = 3
    /\ critic_target = critic

(* C19: step() hands the buffer the mask False when t + 1 is the           *)
(* environment's max episode steps and the environment's done otherwise;   *)
(* it returns counter 0 and a reset state when the environment reports     *)
(* done, and counter t + 1 and next_state otherwise.                       *)
C19_Step ==
    op.name = "step" =>
        /\ appended.mask = (IF op.t + 1 = op.max_episode_steps THEN FALSE ELSE op.done)
        /\ appended.state = op.state
        /\ IF op.done
           THEN ret.t = 0 /\ ret.next_state = ResetState
           ELSE ret.t = op.t + 1 /\ ret.next_state = appended.next_state
        /\ appended.next_state # ResetState

C19_Witness ==
    /\ op.name = "step"
    /\ op.done
    /\ op.t + 1 = op.max_episode_steps
    /\ appended.mask = FALSE
    /\ ret.t = 0
    /\ ret.next_state = ResetState

====
